---- MODULE Spec2Model ----
(***************************************************************************)
(* The review-relevance decision pipeline of src/src/server/agent.py:      *)
(* extract_features -> rule_filter -> heuristics_positive -> llm_judge ->  *)
(* aggregate, wired by build_graph with two conditional early exits.       *)
(*                                                                         *)
(* A review text is a sequence of lexemes (tokens); the regular            *)
(* expressions of the source are evaluated on that sequence, with \b and   *)
(* \S decided by the first and last character class of each lexeme.        *)
(* Confidences are kept in hundredths (0.9 is 90); intermediate values are *)
(* kept in ten-thousandths so that round(x, 2) is a real operation.        *)
(***************************************************************************)
EXTENDS Integers, Sequences, FiniteSets, TLC

VARIABLES state, pc, ran, err, reply, other

vars == <<state, pc, ran, err, reply, other>>

\* ------------------------------------------------------------------ bounds
MaxTextLen == 3
MaxPics == 1

\* ----------------------------------------------------------- Python values
ABSENT == "<absent>"
NONE == "<None>"

Range(s) == {s[i] : i \in 1..Len(s)}

RECURSIVE SeqsUpTo(_, _)
SeqsUpTo(S, n) ==
    IF n = 0 THEN {<<>>}
    ELSE LET shorter == SeqsUpTo(S, n - 1)
         IN shorter \cup {Append(s, x) : s \in {t \in shorter : Len(t) = n - 1}, x \in S}

\* ------------------------------------------------- lexemes of a review text
\* One URL prefix, one promotional term, whitespace and two visit markers.
\* Joined lexemes give the text ("www." "sale" is "www.sale"); no lexeme
\* spells an irrelevant-content hint, so irrelevant_hints_found stays empty.
Tokens == {"www.", "sale", " ", "queue", "waited"}

IsSpace(tok) == tok = " "
StartsWithWordChar(tok) == tok # " "
EndsWithWordChar(tok) == tok \notin {" ", "www."}

\* str.strip(): leading and trailing whitespace removed
RECURSIVE lstrip(_)
lstrip(toks) ==
    IF toks # <<>> /\ IsSpace(Head(toks)) THEN lstrip(Tail(toks)) ELSE toks

RECURSIVE rstrip(_)
rstrip(toks) ==
    IF toks # <<>> /\ IsSpace(toks[Len(toks)])
    THEN rstrip(SubSeq(toks, 1, Len(toks) - 1))
    ELSE toks

strip(toks) == rstrip(lstrip(toks))

RECURSIVE len(_)
len(toks) == IF toks = <<>> THEN 0 ELSE Len(Head(toks)) + len(Tail(toks))

\* ------------------------------------------------------- regex / heuristics
URL_PREFIXES == {"www."}

\* URL_RE.findall(text): (https?://|www\.)\S+ scanned left to right; a match
\* starts at a prefix that is followed by a non-space character and runs to
\* the next whitespace.
RECURSIVE SkipNonSpace(_, _)
SkipNonSpace(toks, i) ==
    IF i <= Len(toks) /\ ~IsSpace(toks[i]) THEN SkipNonSpace(toks, i + 1) ELSE i

RECURSIVE URL_RE_findall(_, _)
URL_RE_findall(toks, i) ==
    IF i > Len(toks) THEN 0
    ELSE IF toks[i] \in URL_PREFIXES /\ i < Len(toks) /\ ~IsSpace(toks[i + 1])
         THEN 1 + URL_RE_findall(toks, SkipNonSpace(toks, i + 1))
         ELSE URL_RE_findall(toks, i + 1)

\* faulty variant: URL_RE.match, which looks at the start of the text only
URL_RE_search_anchored(toks) ==
    Len(toks) >= 2 /\ toks[1] \in URL_PREFIXES /\ ~IsSpace(toks[2])

URL_RE_search(toks) ==
    \E i \in 1..Len(toks) :
        toks[i] \in URL_PREFIXES /\ i < Len(toks) /\ ~IsSpace(toks[i + 1])

\* the terms of each list that the lexemes can spell, in list order
PROMO_TERMS == <<"sale">>
VISIT_MARKERS == <<"queue", "waited">>
IRRELEVANT_HINTS == <<"crypto">>

\* re.compile(r"\b" + term + r"\b").search(text): the term with a word
\* boundary on both sides
term_search(term, toks) ==
    \E i \in 1..Len(toks) :
        /\ toks[i] = term
        /\ (i = 1 \/ ~EndsWithWordChar(toks[i - 1]))
        /\ (i = Len(toks) \/ ~StartsWithWordChar(toks[i + 1]))

RECURSIVE hits(_, _)
hits(terms, toks) ==
    IF terms = <<>> THEN <<>>
    ELSE (IF term_search(Head(terms), toks) THEN <<Head(terms)>> ELSE <<>>)
         \o hits(Tail(terms), toks)

count_matches(terms, toks) == Len(hits(terms, toks))

\* ---------------------------------------------------------- review records
\* review["text"]: key absent, None, a string (its lexemes) or a non-string
Texts ==
    {[kind |-> "str", toks |-> t] : t \in SeqsUpTo(Tokens, MaxTextLen)}
    \cup {[kind |-> k, toks |-> <<>>] : k \in {"absent", "None", "int"}}

\* one entry of review["pics"], written as its Python literal
PicEntries == {"{'url': ['u']}", "{'url': []}", "{'url': 'u'}", "{}", "'junk'"}
IsMap(p) == p # "'junk'"
\* faulty variant: a url given as a single string is not collected
entry_urls_lists_only(p) == IF p = "{'url': ['u']}" THEN <<"u">> ELSE <<>>

\* the strings extract_pics takes from one entry (only their number matters)
entry_urls(p) ==
    IF p = "{'url': ['u']}" THEN <<"u">>
    ELSE IF p = "{'url': 'u'}" THEN <<"u">>
    ELSE <<>>

Pics ==
    {[kind |-> "list", items |-> s] : s \in SeqsUpTo(PicEntries, MaxPics)}
    \cup {[kind |-> k, items |-> <<>>] : k \in {"absent", "None"}}

\* (time, rating) of a record: absent, a valid epoch in ms, an out-of-range one
Metas ==
    { [time |-> ABSENT, rating |-> ABSENT],
      [time |-> "1533121309821", rating |-> "3"],
      [time |-> "10**30", rating |-> "5"] }

Reviews ==
    {[text |-> t, pics |-> p, time |-> m.time, rating |-> m.rating] :
        t \in Texts, p \in Pics, m \in Metas}

\* ------------------------------------------------------------ extract_pics
RECURSIVE pics_urls(_)
pics_urls(items) ==
    IF items = <<>> THEN <<>> ELSE entry_urls(Head(items)) \o pics_urls(Tail(items))

\* faulty variant: urls is one list kept between calls (a mutable default
\* argument), so it still holds what the other invocation collected
extract_pics_accumulating(review) ==
    LET pics == IF review.pics.kind = "list" THEN review.pics.items ELSE <<>>
        kept == IF other.state.features = <<>> THEN 0
                ELSE other.state.features[1].pics_count
    IN IF \E i \in 1..Len(pics) : ~IsMap(pics[i])
       THEN [err |-> "AttributeError", urls |-> <<>>]
       ELSE [err |-> "none", urls |-> [i \in 1..kept |-> "u"] \o pics_urls(pics)]

\* faulty variant: every pics entry is counted, with a url or without
extract_pics_counting_entries(review) ==
    LET pics == IF review.pics.kind = "list" THEN review.pics.items ELSE <<>>
    IN IF \E i \in 1..Len(pics) : ~IsMap(pics[i])
       THEN [err |-> "AttributeError", urls |-> <<>>]
       ELSE [err |-> "none", urls |-> [i \in 1..Len(pics) |-> "u"]]

\* [err, urls]: p.get("url") raises AttributeError on an entry that is no map
extract_pics(review) ==
    LET pics == IF review.pics.kind = "list" THEN review.pics.items ELSE <<>>
    IN IF \E i \in 1..Len(pics) : ~IsMap(pics[i])
       THEN [err |-> "AttributeError", urls |-> <<>>]
       ELSE [err |-> "none", urls |-> pics_urls(pics)]

\* -------------------------------------------------------------- ms_to_date
ms_to_date(ms) ==
    IF ms \in {ABSENT, NONE} THEN NONE
    ELSE IF ms = "1533121309821" THEN "2018-08-01T11:01:49.821000+00:00"
    ELSE NONE   \* datetime.fromtimestamp raised; except Exception: return None

\* ----------------------------------------------- Node 1: feature extraction
NoFeatures == <<>>

\* faulty variant: one visit marker is taken as enough
likely_visited_one_marker(has_pics, visit_markers_count) ==
    has_pics \/ visit_markers_count >= 1

\* likely_visited = has_pics or (visit_markers_count >= 2)
likely_visited(has_pics, visit_markers_count) ==
    has_pics \/ visit_markers_count >= 2

Bundle(text, n_pics, rating, time_ms) ==
    LET url_count == URL_RE_findall(text, 1)
        has_pics == n_pics > 0
        visit_markers_count == count_matches(VISIT_MARKERS, <<" ">> \o text \o <<" ">>)
    IN [ text_len |-> len(text),
         has_url |-> URL_RE_search(text),
         url_count |-> url_count,
         promo_keywords_found |-> hits(PROMO_TERMS, text),
         irrelevant_hints_found |-> hits(IRRELEVANT_HINTS, text),
         has_pics |-> has_pics,
         pics_count |-> n_pics,
         visit_markers_count |-> visit_markers_count,
         likely_visited |-> likely_visited(has_pics, visit_markers_count),
         rating |-> rating,
         date_iso |-> ms_to_date(time_ms) ]

\* every node returns [err, st]: the exception it raises ("none" if it
\* returns) and the state it returns
extract_features(st) ==
    LET review == st.review
        pics == extract_pics(review)
    IN IF review.text.kind = "int"
       THEN [err |-> "AttributeError", st |-> st]    \* int has no .strip()
       ELSE IF pics.err # "none"
       THEN [err |-> pics.err, st |-> st]
       ELSE [err |-> "none",
             st |-> [st EXCEPT !.features =
                        <<Bundle(strip(review.text.toks), Len(pics.urls),
                                 review.rating, review.time)>>]]

\* ------------------------------------- Node 2: rules (fast negatives for ads)
RECURSIVE join(_, _)
join(sep, strs) ==
    IF strs = <<>> THEN ""
    ELSE IF Len(strs) = 1 THEN strs[1]
    ELSE strs[1] \o sep \o join(sep, Tail(strs))

\* faulty variant: only a web link counts as an ad signal
rule_filter_url_only(st) ==
    LET f == st.features[1]
    IN IF f.has_url
       THEN [err |-> "none",
             st |-> [st EXCEPT !.rule_decision = "not_relevant",
                               !.rule_reason = "Likely advertisement (contains web link)."]]
       ELSE [err |-> "none",
             st |-> [st EXCEPT !.rule_decision = NONE, !.rule_reason = NONE]]

\* faulty variant: a review with photos is never rejected by the rules
rule_filter_sparing_photos(st) ==
    LET f == st.features[1]
    IN IF (f.has_url \/ f.promo_keywords_found # <<>>) /\ ~f.has_pics
       THEN [err |-> "none",
             st |-> [st EXCEPT !.rule_decision = "not_relevant",
                               !.rule_reason = "Likely advertisement."]]
       ELSE [err |-> "none",
             st |-> [st EXCEPT !.rule_decision = NONE, !.rule_reason = NONE]]

rule_filter(st) ==
    LET f == st.features[1]
        reasons ==
            (IF f.has_url THEN <<"contains web link">> ELSE <<>>)
            \o (IF f.promo_keywords_found # <<>>
                THEN <<"promotional terms: " \o join(", ", f.promo_keywords_found)>>
                ELSE <<>>)
    IN IF f.has_url \/ f.promo_keywords_found # <<>>
       THEN [err |-> "none",
             st |-> [st EXCEPT !.rule_decision = "not_relevant",
                               !.rule_reason =
                                   "Likely advertisement (" \o join("; ", reasons) \o ")."]]
       ELSE [err |-> "none",
             st |-> [st EXCEPT !.rule_decision = NONE, !.rule_reason = NONE]]

\* state.get(key) is truthy: the key is set, not None and not the empty string
Truthy(v) == v \notin {ABSENT, NONE, "", "false", "0"}

\* faulty variant: the rule stage never exits early
rule_filter_next_never_exits(st) == "continue"

rule_filter_next(st) ==
    IF Truthy(st.rule_decision) THEN "early_exit" ELSE "continue"

\* ------------------------------------- Node 3: heuristics (fast positives)
\* faulty variant: the ad signals are not checked again
heuristics_positive_assuming_order(st) ==
    LET f == st.features[1]
    IN IF f.has_pics
       THEN [err |-> "none",
             st |-> [st EXCEPT !.rule_decision = "relevant",
                               !.rule_reason = "Has photos and no ad signals."]]
       ELSE [err |-> "none",
             st |-> [st EXCEPT !.rule_decision = NONE, !.rule_reason = NONE]]

\* faulty variant: the heuristic stage also rejects a review with no text
heuristics_positive_rejecting_empty(st) ==
    LET f == st.features[1]
    IN IF f.has_pics /\ ~f.has_url /\ f.promo_keywords_found = <<>>
       THEN [err |-> "none",
             st |-> [st EXCEPT !.rule_decision = "relevant",
                               !.rule_reason = "Has photos and no ad signals."]]
       ELSE IF f.text_len = 0
       THEN [err |-> "none",
             st |-> [st EXCEPT !.rule_decision = "not_relevant",
                               !.rule_reason = "Empty review."]]
       ELSE [err |-> "none",
             st |-> [st EXCEPT !.rule_decision = NONE, !.rule_reason = NONE]]

heuristics_positive(st) ==
    LET f == st.features[1]
    IN IF f.has_pics /\ ~f.has_url /\ f.promo_keywords_found = <<>>
       THEN [err |-> "none",
             st |-> [st EXCEPT !.rule_decision = "relevant",
                               !.rule_reason = "Has photos and no ad signals."]]
       ELSE [err |-> "none",
             st |-> [st EXCEPT !.rule_decision = NONE, !.rule_reason = NONE]]

\* faulty variant: the heuristic stage always exits early
heuristics_next_always_exits(st) == "early_exit"

heuristics_next(st) ==
    IF Truthy(st.rule_decision) THEN "early_exit" ELSE "continue"

\* -------------------------------------------------- Node 4: the LLM judge
\* state["llm_vote"]: key never set (kind "absent"), or what json.loads
\* returned: None for the JSON text null, a dict for a JSON object, a list
\* for a JSON array.  The fields of a dict are kept as JSON literals
\* ("true", "false", a string) or ABSENT for a missing key.
NoVote ==
    [ kind |-> "absent", advertisement |-> ABSENT, irrelevant |-> ABSENT,
      rant_without_visit |-> ABSENT, visited |-> ABSENT, relevant |-> ABSENT,
      reasoning |-> ABSENT ]

JBool == {"true", "false"}
VISITED == {"yes", "probably", "unclear", "no"}

\* class PolicyJudgement: every field required, of the declared type
PolicyJudgement(v) ==
    /\ v.kind = "object"
    /\ v.advertisement \in JBool
    /\ v.irrelevant \in JBool
    /\ v.rant_without_visit \in JBool
    /\ v.visited \in VISITED
    /\ v.relevant \in JBool
    /\ v.reasoning \notin {ABSENT, NONE} \cup JBool

ConformingVotes ==
    { [ kind |-> "object", advertisement |-> a, irrelevant |-> i,
        rant_without_visit |-> r, visited |-> v, relevant |-> rel,
        reasoning |-> "Brief reason." ] :
        a \in JBool, i \in JBool, r \in JBool, v \in VISITED, rel \in JBool }

CleanVote ==
    [ kind |-> "object", advertisement |-> "false", irrelevant |-> "false",
      rant_without_visit |-> "false", visited |-> "yes", relevant |-> "true",
      reasoning |-> "Brief reason." ]

\* JSON objects that parse but break the schema: a required field missing,
\* a field of the wrong type, visited outside its enumeration, no field at all
ViolatingVotes ==
    { [CleanVote EXCEPT !.relevant = ABSENT],
      [CleanVote EXCEPT !.relevant = "'no'"],
      [CleanVote EXCEPT !.advertisement = ABSENT],
      [CleanVote EXCEPT !.irrelevant = "'false'"],
      [CleanVote EXCEPT !.rant_without_visit = NONE],
      [CleanVote EXCEPT !.visited = "maybe"],
      [CleanVote EXCEPT !.visited = ABSENT],
      [CleanVote EXCEPT !.reasoning = ABSENT],
      [CleanVote EXCEPT !.reasoning = NONE],
      [NoVote EXCEPT !.kind = "object"] }

\* JSON texts that are no object at all
NonObjectVotes == { [NoVote EXCEPT !.kind = "null"], [NoVote EXCEPT !.kind = "array"] }

\* what client.chat_completion(...) does: raises, or returns a content string
Replies ==
    {[outcome |-> o, vote |-> NoVote] : o \in {"timeout", "http_error", "not_json"}}
    \cup {[outcome |-> "json", vote |-> v] :
            v \in ConformingVotes \cup ViolatingVotes \cup NonObjectVotes}

\* faulty variant: a failed call is swallowed and the pipeline goes on
llm_judge_swallowing(st, out) ==
    IF out.outcome = "json"
    THEN [err |-> "none", st |-> [st EXCEPT !.llm_vote = out.vote]]
    ELSE [err |-> "none", st |-> st]

\* faulty variant: the judge also records an explanation of its own
llm_judge_explaining(st, out) ==
    IF out.outcome = "timeout" THEN [err |-> "InferenceTimeoutError", st |-> st]
    ELSE IF out.outcome = "http_error" THEN [err |-> "HfHubHTTPError", st |-> st]
    ELSE IF out.outcome = "not_json" THEN [err |-> "JSONDecodeError", st |-> st]
    ELSE [err |-> "none", st |-> [st EXCEPT !.llm_vote = out.vote,
                                           !.rule_reason = "Sent to the judge."]]

llm_judge(st, out) ==
    IF out.outcome = "timeout" THEN [err |-> "InferenceTimeoutError", st |-> st]
    ELSE IF out.outcome = "http_error" THEN [err |-> "HfHubHTTPError", st |-> st]
    ELSE IF out.outcome = "not_json" THEN [err |-> "JSONDecodeError", st |-> st]
    ELSE [err |-> "none", st |-> [st EXCEPT !.llm_vote = out.vote]]

\* ------------------------------------------------------- Node 5: aggregate
NoConfidence == -1

max(a, b) == IF a >= b THEN a ELSE b
min(a, b) == IF a <= b THEN a ELSE b

\* round(x, 2) of x ten-thousandths, in hundredths (ties to even)
round2(x) ==
    LET q == x \div 100
        r == x % 100
    IN IF r < 50 THEN q
       ELSE IF r > 50 THEN q + 1
       ELSE IF q % 2 = 0 THEN q ELSE q + 1

\* faulty variant: the two fast-path constants swapped
fast_confidence_swapped(decision) == IF decision = "not_relevant" THEN 80 ELSE 90

\* faulty variant: the fast path leaves the confidence unset
fast_confidence_missing(decision) == NoConfidence

\* 0.9 if state["rule_decision"] == "not_relevant" else 0.8
fast_confidence(decision) == IF decision = "not_relevant" THEN 90 ELSE 80

\* state.get("rule_reason") or "Early decision by rules."
fast_explanation(reason) ==
    IF Truthy(reason) THEN reason ELSE "Early decision by rules."

\* faulty variant: vote.get(flag, True), a missing flag counts as set
penalties_missing_counts(vote) ==
    (IF vote.advertisement # "false" THEN 1 ELSE 0)
    + (IF vote.irrelevant # "false" THEN 1 ELSE 0)
    + (IF vote.rant_without_visit # "false" THEN 1 ELSE 0)

penalties(vote) ==
    (IF Truthy(vote.advertisement) THEN 1 ELSE 0)
    + (IF Truthy(vote.irrelevant) THEN 1 ELSE 0)
    + (IF Truthy(vote.rant_without_visit) THEN 1 ELSE 0)

\* faulty variant: only visited = "yes" earns the bonus
llm_confidence_yes_only(vote) ==
    LET conf0 == max(5000, 9000 - 1000 * penalties(vote))
        conf == IF vote.visited = "yes" THEN conf0 + 500 ELSE conf0
    IN round2(min(conf, 9500))

\* faulty variant: each policy flag costs 0.15, so three reach the floor
llm_confidence_steeper(vote) ==
    LET conf0 == max(5000, 9000 - 1500 * penalties(vote))
        conf == IF vote.visited \in {"yes", "probably"} THEN conf0 + 500 ELSE conf0
    IN round2(min(conf, 9500))

llm_confidence(vote) ==
    LET conf0 == max(5000, 9000 - 1000 * penalties(vote))
        conf == IF vote.visited \in {"yes", "probably"} THEN conf0 + 500 ELSE conf0
    IN round2(min(conf, 9500))

\* faulty variant: the judgement is kept in one module-level slot, so the
\* one another invocation received is read when there is one
vote_or_shared(llm_vote) ==
    IF other.state.llm_vote.kind = "object" THEN other.state.llm_vote
    ELSE IF llm_vote.kind = "object" THEN llm_vote ELSE NoVote

\* vote = state.get("llm_vote") or {}
vote_or_empty(llm_vote) == IF llm_vote.kind = "object" THEN llm_vote ELSE NoVote

\* faulty variant: a judgement with a policy flag set is never relevant
llm_decision_penalised(vote) ==
    IF Truthy(vote.relevant) /\ penalties(vote) = 0 THEN "relevant" ELSE "not_relevant"

\* faulty variant: the judgement's own field is passed on as it came
llm_decision_raw(vote) == vote.relevant

\* "relevant" if bool(vote.get("relevant", False)) else "not_relevant"
llm_decision(vote) == IF Truthy(vote.relevant) THEN "relevant" ELSE "not_relevant"

\* vote.get("reasoning", "Combined decision.")
llm_explanation(vote) ==
    IF vote.reasoning = ABSENT THEN "Combined decision." ELSE vote.reasoning

\* faulty variant: the judgement is taken out of the state (state.pop)
aggregate_consuming_vote(st) ==
    IF Truthy(st.rule_decision)
    THEN [err |-> "none", st |-> [st EXCEPT !.final_decision = st.rule_decision,
            !.explanation = fast_explanation(st.rule_reason),
            !.confidence = fast_confidence(st.rule_decision)]]
    ELSE IF st.llm_vote.kind = "array"
    THEN [err |-> "AttributeError", st |-> st]
    ELSE LET vote == vote_or_empty(st.llm_vote)
         IN [err |-> "none", st |-> [st EXCEPT !.final_decision = llm_decision(vote),
                !.confidence = llm_confidence(vote), !.explanation = llm_explanation(vote),
                !.llm_vote = NoVote]]

aggregate(st) ==
    IF Truthy(st.rule_decision)
    THEN [err |-> "none",
          st |-> [st EXCEPT !.final_decision = st.rule_decision,
                            !.explanation = fast_explanation(st.rule_reason),
                            !.confidence = fast_confidence(st.rule_decision)]]
    ELSE IF st.llm_vote.kind = "array"
    THEN [err |-> "AttributeError", st |-> st]      \* list has no .get()
    ELSE
      LET vote == vote_or_empty(st.llm_vote)
      IN [err |-> "none",
          st |-> [st EXCEPT !.final_decision = llm_decision(vote),
                            !.confidence = llm_confidence(vote),
                            !.explanation = llm_explanation(vote)]]

\* ------------------------------------------------------------- build_graph
InitState(review) ==
    [ review |-> review, features |-> NoFeatures, rule_decision |-> ABSENT,
      rule_reason |-> ABSENT, llm_vote |-> NoVote, final_decision |-> ABSENT,
      explanation |-> ABSENT, confidence |-> NoConfidence ]

NoReply == [outcome |-> "not_called", vote |-> NoVote]

\* one invocation of the compiled graph: its state, position, nodes run,
\* exception and the judge's reply to it
Invocation(st, at, nodes, e, r) ==
    [state |-> st, pc |-> at, ran |-> nodes, err |-> e, reply |-> r]

Invoke(review) == Invocation(InitState(review), "START", <<>>, "none", NoReply)

\* no second invocation is running
NoOther ==
    Invocation(InitState([text |-> [kind |-> "absent", toks |-> <<>>],
                          pics |-> [kind |-> "absent", items |-> <<>>],
                          time |-> ABSENT, rating |-> ABSENT]),
               "none", <<>>, "none", NoReply)

\* app.invoke({"review": review})
Init ==
    /\ state \in {InitState(r) : r \in Reviews}
    /\ pc = "START"
    /\ ran = <<>>
    /\ err = "none"
    /\ reply = NoReply
    /\ other = NoOther

\* one node runs: its result becomes the state and the edge out of it is
\* taken, or its exception leaves invoke()
RunNode(node, result, next) ==
    /\ pc = node
    /\ ran' = Append(ran, node)
    /\ IF result.err = "none"
       THEN /\ state' = result.st
            /\ pc' = next
            /\ err' = err
       ELSE /\ state' = state
            /\ pc' = "error"
            /\ err' = result.err
    /\ UNCHANGED other

Start ==
    /\ pc = "START"
    /\ pc' = "extract_features"
    /\ UNCHANGED <<state, ran, err, reply, other>>

ExtractFeatures ==
    /\ RunNode("extract_features", extract_features(state), "rule_filter")
    /\ UNCHANGED reply

RuleFilter ==
    LET result == rule_filter(state)
    IN /\ RunNode("rule_filter", result,
                  IF rule_filter_next(result.st) = "early_exit"
                  THEN "aggregate" ELSE "heuristics_positive")
       /\ UNCHANGED reply

HeuristicsPositive ==
    LET result == heuristics_positive(state)
    IN /\ RunNode("heuristics_positive", result,
                  IF heuristics_next(result.st) = "early_exit"
                  THEN "aggregate" ELSE "llm_judge")
       /\ UNCHANGED reply

LlmJudge ==
    \E r \in Replies :
        /\ RunNode("llm_judge", llm_judge(state, r), "aggregate")
        /\ reply' = r

Aggregate ==
    /\ RunNode("aggregate", aggregate(state), "END")
    /\ UNCHANGED reply

Next ==
    \/ Start
    \/ ExtractFeatures
    \/ RuleFilter
    \/ HeuristicsPositive
    \/ LlmJudge
    \/ Aggregate

Spec == Init /\ [][Next]_vars

\* the Verdict the caller builds from the final state; out.get("llm_vote")
\* is None when the key was never set and when it holds None
Verdict(st) ==
    [ final_decision |-> st.final_decision,
      explanation |-> st.explanation,
      confidence |-> st.confidence,
      features |-> st.features,
      llm_vote |-> IF st.llm_vote.kind \in {"absent", "null"} THEN NoVote ELSE st.llm_vote ]

\* ------------------------------------------------ the stages run standalone
\* Each stage is a function of the state it is handed; here one stage is
\* applied to an arbitrary state, whatever stage would have produced it.
StandaloneBundles ==
    { [ Bundle(<<>>, IF hp THEN 1 ELSE 0, ABSENT, ABSENT) EXCEPT
          !.has_url = u, !.url_count = IF u THEN 1 ELSE 0,
          !.promo_keywords_found = p ] :
        u \in BOOLEAN, hp \in BOOLEAN, p \in {<<>>, PROMO_TERMS} }

StandaloneStates ==
    { [ InitState([text |-> [kind |-> "absent", toks |-> <<>>],
                   pics |-> [kind |-> "absent", items |-> <<>>],
                   time |-> ABSENT, rating |-> ABSENT]) EXCEPT
          !.features = <<f>>, !.rule_decision = d, !.rule_reason = why,
          !.llm_vote = v ] :
        f \in StandaloneBundles,
        d \in {ABSENT, NONE, "relevant", "not_relevant"},
        why \in {ABSENT, NONE, "", "Has photos and no ad signals."},
        v \in {NoVote} \cup ConformingVotes \cup ViolatingVotes \cup NonObjectVotes }

InitStandalone ==
    /\ state \in StandaloneStates
    /\ pc = "call"
    /\ ran = <<>>
    /\ err = "none"
    /\ reply = NoReply
    /\ other = NoOther

\* one call of one stage on the state handed to it
CallAlone(node, result) ==
    /\ pc = "call"
    /\ ran' = <<node>>
    /\ state' = result.st
    /\ err' = result.err
    /\ pc' = IF result.err = "none" THEN "returned" ELSE "error"
    /\ UNCHANGED <<reply, other>>

RuleFilterAlone ==
    /\ pc = "call"
    /\ CallAlone("rule_filter", rule_filter(state))

HeuristicsPositiveAlone ==
    /\ pc = "call"
    /\ CallAlone("heuristics_positive", heuristics_positive(state))

AggregateAlone ==
    /\ pc = "call"
    /\ CallAlone("aggregate", aggregate(state))

NextStandalone ==
    \/ RuleFilterAlone
    \/ HeuristicsPositiveAlone
    \/ AggregateAlone

SpecStandalone == InitStandalone /\ [][NextStandalone]_vars

\* ------------------------------------------- two invocations in one process
\* A host calls app.invoke a second time while the first call is running; the
\* nodes of the two calls interleave in any order.  The first call is the
\* pipeline above, the second is held in the variable other.

\* the step the graph takes next in an invocation; r is what the judge
\* answers if that step is the judge's
StepOf(inv, r) ==
    LET After(node, result, next, rp) ==
            IF result.err = "none"
            THEN Invocation(result.st, next, Append(inv.ran, node), inv.err, rp)
            ELSE Invocation(inv.state, "error", Append(inv.ran, node), result.err, rp)
    IN CASE inv.pc = "START" -> [inv EXCEPT !.pc = "extract_features"]
         [] inv.pc = "extract_features" ->
              After("extract_features", extract_features(inv.state), "rule_filter", inv.reply)
         [] inv.pc = "rule_filter" ->
              LET result == rule_filter(inv.state)
              IN After("rule_filter", result,
                       IF rule_filter_next(result.st) = "early_exit"
                       THEN "aggregate" ELSE "heuristics_positive", inv.reply)
         [] inv.pc = "heuristics_positive" ->
              LET result == heuristics_positive(inv.state)
              IN After("heuristics_positive", result,
                       IF heuristics_next(result.st) = "early_exit"
                       THEN "aggregate" ELSE "llm_judge", inv.reply)
         [] inv.pc = "llm_judge" ->
              After("llm_judge", llm_judge(inv.state, r), "aggregate", r)
         [] inv.pc = "aggregate" ->
              After("aggregate", aggregate(inv.state), "END", inv.reply)
         [] OTHER -> inv

\* app.invoke run to its end with nothing else running
RECURSIVE RunToEnd(_, _)
RunToEnd(inv, r) ==
    IF inv.pc \in {"END", "error"} THEN inv ELSE RunToEnd(StepOf(inv, r), r)

\* the records the two calls are made with: with and without a URL, with and
\* without a photo, well-formed and malformed
TwoReviews ==
    { r \in Reviews :
        /\ r.time = ABSENT
        /\ \/ r.text.kind = "int"
           \/ r.text.kind = "str" /\ r.text.toks \in {<<"queue">>, <<"www.", "queue">>}
        /\ r.pics.kind = "list"
        /\ r.pics.items \in {<<>>, <<"{'url': 'u'}">>, <<"'junk'">>} }

InitTwo ==
    /\ state \in {InitState(r) : r \in TwoReviews}
    /\ pc = "START"
    /\ ran = <<>>
    /\ err = "none"
    /\ reply = NoReply
    /\ other \in {Invoke(r) : r \in TwoReviews}

\* the second call takes its next step
OtherStep ==
    /\ other.pc \notin {"END", "error"}
    /\ \E r \in (IF other.pc = "llm_judge" THEN Replies ELSE {other.reply}) :
          other' = StepOf(other, r)
    /\ UNCHANGED <<state, pc, ran, err, reply>>

NextTwo ==
    \/ Start
    \/ ExtractFeatures
    \/ RuleFilter
    \/ HeuristicsPositive
    \/ LlmJudge
    \/ Aggregate
    \/ OtherStep

SpecTwo == InitTwo /\ [][NextTwo]_vars

\* =================================================================== claims
Last(s) == s[Len(s)]
Ran(node) == node \in Range(ran)
Decided(d) == d \in {"relevant", "not_relevant"}

\* the record as the data model describes it: text a string when present,
\* pics a list of photo references (maps) when present
IsReviewRecord(review) ==
    /\ review.text.kind # "int"
    /\ \A i \in 1..Len(review.pics.items) : IsMap(review.pics.items[i])

HasAdSignal(review) ==
    \/ URL_RE_search(review.text.toks)
    \/ \E i \in 1..Len(PROMO_TERMS) : term_search(PROMO_TERMS[i], review.text.toks)

JudgeFailures == {"timeout", "http_error", "not_json"}

\* C1: the stages run in the order extract -> rule_check -> (heuristic_check |
\* aggregate) -> (llm_judge | aggregate) -> aggregate -> done; rule_check goes
\* to aggregate exactly when the decision it just made is not undetermined
\* and to heuristic_check otherwise, heuristic_check likewise to aggregate or
\* llm_judge; the only other way out of a stage is the exception it raises,
\* and nothing follows done or an exception.
C1_StageOrder ==
    [][ /\ pc = "START" => pc' = "extract_features"
        /\ pc = "extract_features" => pc' \in {"rule_filter", "error"}
        /\ pc = "rule_filter" =>
              pc' = IF Decided(state'.rule_decision)
                    THEN "aggregate" ELSE "heuristics_positive"
        /\ pc = "heuristics_positive" =>
              pc' = IF Decided(state'.rule_decision) THEN "aggregate" ELSE "llm_judge"
        /\ pc = "llm_judge" => pc' \in {"aggregate", "error"}
        /\ pc = "aggregate" => pc' \in {"END", "error"}
        /\ pc \notin {"END", "error"}
        /\ ran' = Append(ran, pc) \/ pc = "START" ]_vars

C1_Witness ==
    /\ pc = "END"
    /\ ran = <<"extract_features", "rule_filter", "heuristics_positive",
               "llm_judge", "aggregate">>

\* C2: when the judge call fails (timeout, transport error, unparsable
\* content) the invocation ends with the exception propagated: aggregate
\* never runs and no final_decision, explanation or confidence is produced.
C2_JudgeFailureAborts ==
    reply.outcome \in JudgeFailures =>
        /\ pc = "error"
        /\ err # "none"
        /\ Last(ran) = "llm_judge"
        /\ ~Ran("aggregate")
        /\ state.final_decision = ABSENT
        /\ state.explanation = ABSENT
        /\ state.confidence = NoConfidence

C2_Witness ==
    /\ reply.outcome = "timeout"
    /\ pc = "error"
    /\ err = "InferenceTimeoutError"

\* C3 (the claim as stated): a reply that is a JSON object but breaks the
\* Policy Judgement schema makes the judge fail, and no Verdict is derived
\* from it.
C3_SchemaViolationRejected ==
    (reply.outcome = "json" /\ reply.vote.kind = "object" /\ ~PolicyJudgement(reply.vote)) =>
        /\ pc = "error"
        /\ state.final_decision = ABSENT
        /\ state.confidence = NoConfidence

\* C4 (the claim as stated): in an invocation that returns a Verdict exactly
\* one of the rule stage, the heuristic stage and the judge decided it; after
\* a fast stage fired the judge did not run and the Verdict has no llm_vote;
\* the Verdict has an llm_vote if and only if llm_judge ran.
C4_OneOrigin ==
    pc = "END" =>
        /\ Decided(state.rule_decision) # Ran("llm_judge")
        /\ Decided(state.rule_decision) =>
              /\ Verdict(state).llm_vote = NoVote
              /\ Verdict(state).final_decision = state.rule_decision
        /\ (Verdict(state).llm_vote # NoVote) <=> Ran("llm_judge")

\* C5: the rule stage returns not_relevant if has_url is true or
\* promo_keywords_found is non-empty, and None otherwise; never relevant.
C5_RuleStage ==
    (ran # <<>> /\ Last(ran) = "rule_filter") =>
        LET f == state.features[1]
        IN /\ (f.has_url \/ Len(f.promo_keywords_found) > 0)
                => state.rule_decision = "not_relevant"
           /\ (~f.has_url /\ Len(f.promo_keywords_found) = 0)
                => state.rule_decision = NONE
           /\ state.rule_decision # "relevant"

C5_Witness ==
    /\ ran # <<>> /\ Last(ran) = "rule_filter"
    /\ ~state.features[1].has_url
    /\ state.features[1].promo_keywords_found = <<"sale">>
    /\ state.rule_decision = "not_relevant"

\* C6: the heuristic stage, called on any Feature Bundle whether or not the
\* rule stage ran before it, returns relevant if has_pics is true, has_url is
\* false and promo_keywords_found is empty, and None otherwise; never
\* not_relevant.
C6_HeuristicStage ==
    (ran # <<>> /\ Last(ran) = "heuristics_positive") =>
        LET f == state.features[1]
            fires == f.has_pics /\ ~f.has_url /\ Len(f.promo_keywords_found) = 0
        IN /\ fires => state.rule_decision = "relevant"
           /\ ~fires => state.rule_decision = NONE
           /\ state.rule_decision # "not_relevant"

C6_Witness ==
    /\ ran = <<"heuristics_positive">>
    /\ state.features[1].has_pics
    /\ state.features[1].has_url
    /\ state.rule_decision = NONE

\* C7: for a review record with no URL and no promotional term in its text
\* and no photo, both fast stages return undetermined and the judge is
\* invoked: the invocation does not get to aggregate, to its end or to an
\* exception before llm_judge has run.
C7_NoSignalsReachJudge ==
    ( /\ IsReviewRecord(state.review)
      /\ ~HasAdSignal(state.review)
      /\ pics_urls(state.review.pics.items) = <<>> ) =>
        /\ Ran("rule_filter") => state.rule_decision = NONE /\ state.rule_reason = NONE
        /\ pc \in {"aggregate", "END", "error"} =>
              /\ Ran("rule_filter")
              /\ Ran("heuristics_positive")
              /\ Ran("llm_judge")

C7_Witness ==
    /\ ~HasAdSignal(state.review)
    /\ state.review.text.toks = <<"queue", " ", "waited">>
    /\ state.review.pics.kind = "list"
    /\ pics_urls(state.review.pics.items) = <<>>
    /\ pc = "aggregate"
    /\ Ran("llm_judge")

\* C8: a review record with an ad signal in its text and at least one photo
\* is rejected by the rule stage: neither the heuristic stage nor the judge
\* runs, no stage fails, and the Verdict is not_relevant with confidence 0.9.
C8_AdWithPhotoRejected ==
    ( /\ IsReviewRecord(state.review)
      /\ HasAdSignal(state.review)
      /\ Len(state.review.pics.items) >= 1 ) =>
        /\ ~Ran("heuristics_positive")
        /\ ~Ran("llm_judge")
        /\ pc \notin {"heuristics_positive", "llm_judge", "error"}
        /\ pc = "END" =>
              /\ state.final_decision = "not_relevant"
              /\ state.confidence = 90

C8_Witness ==
    /\ HasAdSignal(state.review)
    /\ pics_urls(state.review.pics.items) # <<>>
    /\ pc = "END"
    /\ state.final_decision = "not_relevant"

\* C9: handed a fast-path decision, the aggregator returns that decision,
\* confidence 0.9 for not_relevant and 0.8 for relevant, and as explanation
\* the stage's reason, or the generic fallback when the reason is absent.
C9_FastPathVerdict ==
    (ran = <<"aggregate">> /\ Decided(state.rule_decision)) =>
        /\ state.final_decision = state.rule_decision
        /\ state.rule_decision = "not_relevant" => state.confidence = 90
        /\ state.rule_decision = "relevant" => state.confidence = 80
        /\ state.rule_reason \in {ABSENT, NONE}
              => state.explanation = "Early decision by rules."
        /\ state.rule_reason \notin {ABSENT, NONE, ""}
              => state.explanation = state.rule_reason
        /\ state.explanation \in {state.rule_reason, "Early decision by rules."}

C9_Witness ==
    /\ ran = <<"aggregate">>
    /\ state.rule_decision = "relevant"
    /\ state.rule_reason = ABSENT
    /\ state.llm_vote.kind = "object"
    /\ state.explanation = "Early decision by rules."
    /\ state.confidence = 80

\* C10: on the judge path, for every Policy Judgement, confidence (in
\* hundredths) is min(95, max(50, 90 - 10 k) + b), k the number of true flags
\* among advertisement, irrelevant and rant_without_visit, b = 5 if visited is
\* yes or probably and 0 otherwise; no flag and visited = yes gives 0.95.
C10_JudgeConfidence ==
    (pc = "END" /\ Ran("llm_judge") /\ PolicyJudgement(state.llm_vote)) =>
        LET v == state.llm_vote
            k == Cardinality({fld \in {"advertisement", "irrelevant", "rant_without_visit"} :
                                v[fld] = "true"})
            b == IF v.visited \in {"yes", "probably"} THEN 5 ELSE 0
            floored == IF 90 - 10 * k < 50 THEN 50 ELSE 90 - 10 * k
            expected == IF floored + b > 95 THEN 95 ELSE floored + b
        IN /\ state.confidence = expected
           /\ (k = 0 /\ v.visited = "yes") => state.confidence = 95

C10_Witness ==
    /\ pc = "END"
    /\ Ran("llm_judge")
    /\ PolicyJudgement(state.llm_vote)
    /\ state.llm_vote.advertisement = "true"
    /\ state.llm_vote.irrelevant = "true"
    /\ state.llm_vote.rant_without_visit = "true"
    /\ state.llm_vote.visited = "probably"
    /\ state.confidence = 65

\* C11: on the judge path final_decision is relevant if and only if the
\* Policy Judgement's relevant field is true, whatever its three policy
\* flags and its visited field say.
C11_JudgeDecision ==
    (ran = <<"aggregate">> /\ ~Truthy(state.rule_decision)
        /\ PolicyJudgement(state.llm_vote)) =>
        /\ state.final_decision \in {"relevant", "not_relevant"}
        /\ (state.final_decision = "relevant") <=> (state.llm_vote.relevant = "true")

C11_Witness ==
    /\ ran = <<"aggregate">>
    /\ ~Truthy(state.rule_decision)
    /\ PolicyJudgement(state.llm_vote)
    /\ state.llm_vote.relevant = "true"
    /\ state.llm_vote.advertisement = "true"
    /\ state.llm_vote.visited = "no"
    /\ state.final_decision = "relevant"

\* C12: every Verdict the pipeline returns, on any path, has a confidence
\* that is set and lies in [0.5, 0.95], and a final_decision that is
\* relevant or not_relevant.
C12_VerdictRange ==
    pc = "END" =>
        /\ Verdict(state).confidence # NoConfidence
        /\ Verdict(state).confidence >= 50
        /\ Verdict(state).confidence <= 95
        /\ Verdict(state).final_decision \in {"relevant", "not_relevant"}

C12_Witness ==
    /\ pc = "END"
    /\ Ran("llm_judge")
    /\ penalties(state.llm_vote) = 3
    /\ state.llm_vote.visited = "no"
    /\ Verdict(state).confidence = 60

\* the failure kind a caller can tell from the exception that leaves invoke()
JudgeFailureKind(e) ==
    IF e = "InferenceTimeoutError" THEN "JudgeTimeout"
    ELSE IF e = "HfHubHTTPError" THEN "JudgeTransportError"
    ELSE IF e = "JSONDecodeError" THEN "JudgeSchemaViolation"
    ELSE "none"

\* C13 (the claim as stated): the judge reports each of its failures as its
\* own kind, a timeout as JudgeTimeout, a transport error as
\* JudgeTransportError, malformed or schema-violating output as
\* JudgeSchemaViolation; after a timeout the pipeline reports JudgeTimeout
\* and returns no Verdict.
C13_FailureKinds ==
    /\ reply.outcome = "timeout" =>
          /\ JudgeFailureKind(err) = "JudgeTimeout"
          /\ pc = "error"
          /\ state.final_decision = ABSENT
    /\ reply.outcome = "http_error" => JudgeFailureKind(err) = "JudgeTransportError"
    /\ (\/ reply.outcome = "not_json"
        \/ reply.outcome = "json" /\ ~PolicyJudgement(reply.vote))
          => JudgeFailureKind(err) = "JudgeSchemaViolation"

\* the three Verdict fields aggregate writes are all set
HasVerdict(st) ==
    /\ st.final_decision # ABSENT
    /\ st.explanation # ABSENT
    /\ st.confidence # NoConfidence

\* C14: every invocation terminates: until it has ended a step is always
\* possible and each step runs one more node of the five, none twice; at its
\* end there is exactly one of a Verdict (END) and a propagated exception
\* (error), and before its end there is neither.
C14_Terminates ==
    /\ pc \in {"END", "error"} \/ ENABLED Next
    /\ Len(ran) <= 5
    /\ Cardinality(Range(ran)) = Len(ran)
    /\ pc = "END" => HasVerdict(state) /\ err = "none"
    /\ pc = "error" => err # "none" /\ ~HasVerdict(state) /\ state.final_decision = ABSENT
    /\ pc \notin {"END", "error"} => err = "none" /\ state.final_decision = ABSENT

C14_Witness ==
    /\ pc = "error"
    /\ err = "AttributeError"
    /\ ran # <<>> /\ Last(ran) = "aggregate"

\* C15: for every review record whose text contains a URL, the decision the
\* rule stage makes is not_relevant, whatever its photos, promotional terms,
\* rating and time.
C15_UrlRejected ==
    ( /\ IsReviewRecord(state.review)
      /\ state.review.text.kind = "str"
      /\ \E i \in 1..(Len(state.review.text.toks) - 1) :
            /\ state.review.text.toks[i] = "www."
            /\ ~IsSpace(state.review.text.toks[i + 1])
      /\ ran # <<>> /\ Last(ran) = "rule_filter" ) =>
        /\ err = "none"
        /\ state.rule_decision = "not_relevant"
        /\ pc = "aggregate"

C15_Witness ==
    /\ ran # <<>> /\ Last(ran) = "rule_filter"
    /\ state.review.text.kind = "str"
    /\ state.review.text.toks = <<"queue", "www.", "queue">>
    /\ pics_urls(state.review.pics.items) # <<>>
    /\ state.review.rating = "3"
    /\ state.rule_decision = "not_relevant"

\* a photo reference that carries a url: a string, or a list with an element
CarriesUrl(p) == p \in {"{'url': ['u']}", "{'url': 'u'}"}

\* C16 (the claim as stated): a review record with no URL and no promotional
\* term in its text and at least one photo reference in pics is decided
\* relevant by the heuristic stage, also when a photo reference has no url
\* value or an empty url list.
C16_AnyPhotoReference ==
    ( /\ IsReviewRecord(state.review)
      /\ ~HasAdSignal(state.review)
      /\ Len(state.review.pics.items) >= 1
      /\ ran # <<>> /\ Last(ran) = "heuristics_positive" ) =>
        state.rule_decision = "relevant"

\* C16 (amended): a review record with no URL and no promotional term in its
\* text and at least one photo reference that carries a url is decided
\* relevant by the heuristic stage; a record none of whose photo references
\* carries a url is left undetermined by it.
C16_PhotoWithUrl ==
    ( /\ IsReviewRecord(state.review)
      /\ ~HasAdSignal(state.review)
      /\ ran # <<>> /\ Last(ran) = "heuristics_positive" ) =>
        /\ err = "none"
        /\ (\E i \in 1..Len(state.review.pics.items) : CarriesUrl(state.review.pics.items[i]))
              => state.rule_decision = "relevant" /\ pc = "aggregate"
        /\ ~(\E i \in 1..Len(state.review.pics.items) : CarriesUrl(state.review.pics.items[i]))
              => ~Truthy(state.rule_decision) /\ pc = "llm_judge"

C16_Witness ==
    /\ ~HasAdSignal(state.review)
    /\ state.review.pics.items = <<"{'url': 'u'}">>
    /\ ran # <<>> /\ Last(ran) = "heuristics_positive"
    /\ state.rule_decision = "relevant"

\* C17 (the claim as stated): extract_features never fails; for every input,
\* malformed ones included, it returns a Feature Bundle, with a text that is
\* absent, null or no string counted as empty, a time that is absent or
\* invalid giving no date_iso, and pics that are absent, null or hold
\* entries that are no maps counted as no photos.
C17_ExtractorNeverFails ==
    Ran("extract_features") =>
        /\ ~(pc = "error" /\ Last(ran) = "extract_features")
        /\ state.features # NoFeatures
        /\ \A i \in 1..Len(state.features) :
              /\ state.review.text.kind # "str" => state.features[i].text_len = 0
              /\ state.review.time \in {ABSENT, "10**30"} => state.features[i].date_iso = NONE
              /\ pics_urls(state.review.pics.items) = <<>> => state.features[i].pics_count = 0

\* C20 (the claim as stated): on the judge path the explanation of the
\* Verdict is the judgement's reasoning, or the fallback text when the
\* judgement has no reasoning; it is a string, never null.
C20_Explanation ==
    (pc = "END" /\ Ran("llm_judge")) =>
        /\ Verdict(state).explanation # NONE
        /\ Verdict(state).explanation =
              IF state.llm_vote.kind = "object" /\ state.llm_vote.reasoning \notin {ABSENT, NONE}
              THEN state.llm_vote.reasoning
              ELSE "Combined decision."

\* the first call, as an invocation
Me == Invocation(state, pc, ran, err, reply)
Ended(inv) == inv.pc \in {"END", "error"}

C21_LikelyVisited ==
    \A i \in 1..Len(state.features) :
        state.features[i].likely_visited <=>
            (state.features[i].has_pics \/ state.features[i].visit_markers_count >= 2)

C21_Witness ==
    /\ Ran("extract_features")
    /\ state.features # NoFeatures
    /\ ~state.features[1].has_pics
    /\ state.features[1].visit_markers_count = 1
    /\ ~state.features[1].likely_visited

\* C22: in an invocation no stage runs twice; the judge runs once at most,
\* and only as the fourth stage, after the rule stage and then the heuristic
\* stage have each left the decision undetermined; the judgement llm_judge
\* has written is not changed by any later step.
C22_JudgeOnceAndLast ==
    [][ /\ ran' # ran =>
              /\ ran' = Append(ran, Last(ran'))
              /\ Last(ran') \notin Range(ran)
        /\ (ran' # ran /\ Last(ran') = "rule_filter" /\ Truthy(state'.rule_decision))
              => pc' = "aggregate"
        /\ (ran' # ran /\ Last(ran') = "heuristics_positive" /\ Truthy(state'.rule_decision))
              => pc' = "aggregate"
        /\ pc' = "llm_judge" =>
              /\ ran' = <<"extract_features", "rule_filter", "heuristics_positive">>
              /\ ~Truthy(state'.rule_decision)
        /\ (ran' # ran /\ Last(ran') = "llm_judge") =>
              /\ pc = "llm_judge"
              /\ state'.llm_vote = (IF err' = "none" THEN reply'.vote ELSE NoVote)
        /\ Ran("llm_judge") => state'.llm_vote = state.llm_vote ]_vars

C22_Witness ==
    /\ pc = "END"
    /\ ran = <<"extract_features", "rule_filter", "heuristics_positive", "llm_judge", "aggregate">>
    /\ state.llm_vote.kind = "object"
    /\ state.llm_vote = reply.vote
    /\ state.final_decision = "relevant"

\* the fields of the graph state other than those named in except
SameBut(st1, st2, except) ==
    \A k \in (DOMAIN st1 \cup DOMAIN st2) \ except : st1[k] = st2[k]

\* C23: the review record is never changed, and once extract_features has
\* run neither is the Feature Bundle; rule_filter and heuristics_positive
\* change only rule_decision and rule_reason, llm_judge only llm_vote, and
\* aggregate only final_decision, explanation and confidence.
C23_Frame ==
    [][ /\ DOMAIN state' = DOMAIN state
        /\ state'.review = state.review
        /\ Ran("extract_features") => state'.features = state.features
        /\ ran' # ran =>
              /\ Last(ran') = "extract_features" => SameBut(state, state', {"features"})
              /\ Last(ran') \in {"rule_filter", "heuristics_positive"}
                    => SameBut(state, state', {"rule_decision", "rule_reason"})
              /\ Last(ran') = "llm_judge" => SameBut(state, state', {"llm_vote"})
              /\ Last(ran') = "aggregate"
                    => SameBut(state, state', {"final_decision", "explanation", "confidence"}) ]_vars

C23_Witness ==
    /\ pc = "END"
    /\ Ran("llm_judge")
    /\ state.features # NoFeatures
    /\ state.features[1].visit_markers_count = 2
    /\ state.features[1].date_iso # NONE
    /\ state.rule_reason = NONE
    /\ state.llm_vote.kind = "object"
    /\ state.explanation = "Brief reason."

\* the stage whose decision took the pipeline to aggregate, "none" if the
\* judge was asked
FiredStage ==
    IF ran = <<"extract_features", "rule_filter", "aggregate">> THEN "rule_filter"
    ELSE IF ran = <<"extract_features", "rule_filter", "heuristics_positive", "aggregate">>
    THEN "heuristics_positive"
    ELSE "none"

\* C24: when aggregate has run on a fast path of the pipeline, rule_decision
\* tells which stage fired: it is not_relevant exactly when the rule stage
\* caused the early exit and relevant exactly when the heuristic stage did;
\* so the Verdict's confidence is 0.9 exactly when it came from the rule
\* stage and 0.8 exactly when it came from the heuristic stage.
C24_DecisionNamesStage ==
    (pc = "END" /\ ~Ran("llm_judge")) =>
        /\ FiredStage \in {"rule_filter", "heuristics_positive"}
        /\ state.rule_decision = "not_relevant" <=> FiredStage = "rule_filter"
        /\ state.rule_decision = "relevant" <=> FiredStage = "heuristics_positive"
        /\ state.final_decision = state.rule_decision
        /\ Verdict(state).confidence = 90 <=> FiredStage = "rule_filter"
        /\ Verdict(state).confidence = 80 <=> FiredStage = "heuristics_positive"

C24_Witness ==
    /\ pc = "END"
    /\ FiredStage = "heuristics_positive"
    /\ state.rule_decision = "relevant"
    /\ Verdict(state).confidence = 80
    /\ state.features[1].visit_markers_count = 0

\* a judgement some of whose fields are missing, the others as the schema
\* wants them
PartialJudgement(v) ==
    /\ v.kind = "object"
    /\ v.relevant \in JBool \cup {ABSENT}
    /\ v.advertisement \in JBool \cup {ABSENT}
    /\ v.irrelevant \in JBool \cup {ABSENT}
    /\ v.rant_without_visit \in JBool \cup {ABSENT}
    /\ v.visited \in VISITED \cup {ABSENT}

\* C25: aggregate called with no fast-path decision and with llm_vote absent
\* or an empty object returns, with final_decision not_relevant, confidence
\* 0.9 and explanation "Combined decision."; and a field missing from a
\* judgement counts as false (relevant and the three flags) or as a visited
\* that earns no bonus.
C25_MissingJudgement ==
    (ran = <<"aggregate">> /\ ~Truthy(state.rule_decision)) =>
        /\ (state.llm_vote.kind = "absent" \/ state.llm_vote = [NoVote EXCEPT !.kind = "object"]) =>
              /\ err = "none"
              /\ pc = "returned"
              /\ state.final_decision = "not_relevant"
              /\ state.confidence = 90
              /\ state.explanation = "Combined decision."
        /\ PartialJudgement(state.llm_vote) =>
              /\ err = "none"
              /\ state.final_decision = "relevant" <=> state.llm_vote.relevant = "true"
              /\ state.final_decision = "not_relevant" <=> state.llm_vote.relevant \in {"false", ABSENT}
              /\ state.confidence =
                    90 - 10 * Cardinality({k \in {"advertisement", "irrelevant", "rant_without_visit"} :
                                              state.llm_vote[k] = "true"})
                       + (IF state.llm_vote.visited \in {"yes", "probably"} THEN 5 ELSE 0)

C25_Witness ==
    /\ ran = <<"aggregate">>
    /\ ~Truthy(state.rule_decision)
    /\ state.llm_vote = [NoVote EXCEPT !.kind = "object"]
    /\ pc = "returned"
    /\ state.final_decision = "not_relevant"
    /\ state.confidence = 90
    /\ state.explanation = "Combined decision."

\* C26: on the judge path the confidence of a Verdict is one of 0.6, 0.65,
\* 0.7, 0.75, 0.8, 0.85, 0.9, 0.95; there are three policy flags at most, so
\* 0.9 - 0.1 * penalties stays above the floor of 0.5 and no Verdict of the
\* judge path has a confidence below 0.6.
C26_ConfidenceValues ==
    (pc = "END" /\ Ran("llm_judge")) =>
        /\ Verdict(state).confidence \in {60, 65, 70, 75, 80, 85, 90, 95}
        /\ penalties(vote_or_empty(state.llm_vote)) \in 0..3
        /\ 9000 - 1000 * penalties(vote_or_empty(state.llm_vote)) > 5000
        /\ Verdict(state).confidence >=
              round2(9000 - 1000 * penalties(vote_or_empty(state.llm_vote)))

C26_Witness ==
    /\ pc = "END"
    /\ Ran("llm_judge")
    /\ penalties(state.llm_vote) = 3
    /\ state.llm_vote.visited = "probably"
    /\ Verdict(state).confidence = 65

\* C27: in every Feature Bundle extract_features produces, has_pics is true
\* iff pics_count > 0 and has_url is true iff url_count >= 1; pics_count is
\* the number of photo URLs taken from pics, not the number of pics entries,
\* so a record whose pics entries carry no url has has_pics false and
\* pics_count 0.
C27_CountsAgree ==
    \A i \in 1..Len(state.features) :
        LET f == state.features[i]
            items == state.review.pics.items
        IN /\ f.has_pics <=> f.pics_count > 0
           /\ f.has_url <=> f.url_count >= 1
           /\ f.pics_count = Cardinality({j \in 1..Len(items) : CarriesUrl(items[j])})
           /\ (\A j \in 1..Len(items) : ~CarriesUrl(items[j])) =>
                 (~f.has_pics /\ f.pics_count = 0)

C27_Witness ==
    /\ state.features # NoFeatures
    /\ state.review.pics.items = <<"{'url': []}">>
    /\ ~state.features[1].has_pics
    /\ state.features[1].pics_count = 0
    /\ state.features[1].has_url
    /\ state.features[1].url_count = 1

====
